---- MODULE Spec2Model ----
(***************************************************************************)
(* Connect-four ("Vier gewinnt") of src/viergewinnt.py: the board, the     *)
(* win detector, the move generator, the mover, the agents' move choice,   *)
(* the flattened multi-ply lookahead of DeepAgent.calc_move_values and the *)
(* game loop of VierGewinnt.play_game / play_games_for_learning.           *)
(*                                                                         *)
(* Conventions                                                             *)
(*   - a board is a function state[r][c], r in 0..ROWS-1 (row 0 is the top *)
(*     row, as numpy prints it), c in 0..COLS-1, with values 1 (player1),  *)
(*     -1 (player2) and EMPTY;                                             *)
(*   - Python's None is the string "None", Python's False (the draw        *)
(*     marker) is the string "False", the players' names are "player1"     *)
(*     and "player2";                                                      *)
(*   - scalar values (rewards, estimates, move values) are counted in      *)
(*     halves, so that the draw reward 0.5 is the integer 1: the rewards   *)
(*     +1, 0.5, 0, -1 of calc_reward are 2, 1, 0, -2 here;                 *)
(*   - a Python string is a sequence of one-character strings;             *)
(*   - a call that may raise returns a record whose field exc names the    *)
(*     exception ("none" when the call returns).                           *)
(***************************************************************************)
EXTENDS Integers, Sequences, FiniteSets, TLC

\* ---------------------------------------------------------------- constants

EMPTY == 0

NO_MOVE == -999

ROWS == 6

COLS == 7

\* Number of plies explored from the empty board.
MaxPly == 2

\* Number of cells an end-game opening of Spec leaves empty.
FreeCells == 7

\* Number of cells an end-game opening of GameSpec and LoopSpec leaves
\* empty.
SearchFree == 6

\* Largest lookahead depth (DeepAgent.iteration) explored.
MaxDepth == 2

None == "None"

Draw == "False"

player1 == "player1"

player2 == "player2"

Names == {player1, player2}

Rws == 0 .. (ROWS - 1)

Cls == 0 .. (COLS - 1)

VARIABLES
  state,         \* VierGewinnt.state: the live board
  winner,        \* VierGewinnt.winner
  turn_player,   \* name of VierGewinnt.turn_player
  pc,            \* position of the game loop
  exc,           \* the exception that ended the game loop, or "none"
  nmoves,        \* number of play_move calls since init_game
  agents,        \* kind of each player: "DummyAgent" or "DeepAgent"
  learn,         \* TRUE in play_games_for_learning, FALSE in play_game
  iteration,     \* DeepAgent.iteration
  value_model,   \* the estimator behind DeepAgent.value_model.predict
  last_move,     \* what the latest play_move asked and got
  search,        \* the latest calc_move_values call of the game loop
  reward_args,   \* the winners calc_reward was called with by the latest step
  probe          \* the latest direct call of a method, and its result

vars == <<state, winner, turn_player, pc, exc, nmoves, agents, learn, iteration,
          value_model, last_move, search, reward_args, probe>>

\* The element of a singleton.  A value that is used more than once is bound
\* once, as x in Only({... x ... : x \in {value}}), like the assignment to
\* a local variable it stands for.
Only(S) == CHOOSE x \in S : TRUE

\* ------------------------------------------------------------- win detector

\* The four patterns of check_winner, in the order of the list.
winner_positions ==
  << << <<1>>, <<1>>, <<1>>, <<1>> >>,
     << <<1, 1, 1, 1>> >>,
     << <<1, 0, 0, 0>>, <<0, 1, 0, 0>>, <<0, 0, 1, 0>>, <<0, 0, 0, 1>> >>,
     << <<0, 0, 0, 1>>, <<0, 0, 1, 0>>, <<0, 1, 0, 0>>, <<1, 0, 0, 0>> >> >>

\* The members of a set, as a sequence in some order.
RECURSIVE SeqOfSet(_)
SeqOfSet(S) ==
  IF S = {} THEN <<>>
  ELSE LET x == CHOOSE y \in S : TRUE IN <<x>> \o SeqOfSet(S \ {x})

\* The non-zero taps of a kernel k, as <<row offset, column offset, weight>>:
\* scipy's convolve2d flips the kernel, so entry k[a][b] (1-based here)
\* multiplies the cell at offset (rows - a, columns - b) of the window.
kernel_taps(k) ==
  SeqOfSet({<<Len(k) - ab[1], Len(k[1]) - ab[2], k[ab[1]][ab[2]]>> :
              ab \in {xy \in (1 .. Len(k)) \X (1 .. Len(k[1])) : k[xy[1]][xy[2]] # 0}})

\* The taps of each pattern.
winner_taps == [p \in 1 .. Len(winner_positions) |-> kernel_taps(winner_positions[p])]

\* The sum of the first n taps T of a kernel laid on s at (i, j).
RECURSIVE window_sum(_, _, _, _, _)
window_sum(s, i, j, T, n) ==
  IF n = 0 THEN 0
  ELSE T[n][3] * s[i + T[n][1]][j + T[n][2]] + window_sum(s, i, j, T, n - 1)

\* The set of entries of convolve2d(s, winner_positions[p], mode='valid'):
\* one sum per position at which the kernel lies wholly on the board.
convolve2d(s, p) ==
  LET k == winner_positions[p]
      T == winner_taps[p]
  IN {window_sum(s, i, j, T, Len(T)) :
        i \in 0 .. (ROWS - Len(k)), j \in 0 .. (COLS - Len(k[1]))}

\* all_filled without the test: a faulty variant, no board counts as full.
all_filled_never(s) == FALSE

\* (state != EMPTY).all()
all_filled(s) == \A r \in Rws : \A c \in Cls : s[r][c] # EMPTY

\* pattern_result without the branch for the full board: a faulty variant.
pattern_result_no_draw(s, p) ==
  Only({IF 4 \in convolved_state THEN player1
        ELSE IF -4 \in convolved_state THEN player2
        ELSE "next" : convolved_state \in {convolve2d(s, p)}})

\* One round of the loop over winner_positions: the branch taken for pattern
\* p, "next" when none of the three breaks is taken.
pattern_result(s, p) ==
  Only({IF 4 \in convolved_state THEN player1
        ELSE IF -4 \in convolved_state THEN player2
        ELSE IF all_filled(s) THEN Draw
        ELSE "next" : convolved_state \in {convolve2d(s, p)}})

RECURSIVE check_from(_, _)
check_from(s, p) ==
  IF p > Len(winner_positions) THEN None
  ELSE Only({IF res # "next" THEN res ELSE check_from(s, p + 1) :
               res \in {pattern_result(s, p)}})

check_winner(s) == check_from(s, 1)

\* ------------------------------------------------- mover and move generator

name2val(name) == IF name = player1 THEN 1 ELSE -1

get_opponent_name(name) == IF name = player1 THEN player2 ELSE player1

\* np.sum(state[:, column] == EMPTY)
count_empty(s, column) == Cardinality({r \in Rws : s[r][column] = EMPTY})

\* drop_row with the filled cells counted instead of the empty ones: a
\* faulty variant.
drop_row_filled(s, column) == ROWS - count_empty(s, column)

\* The row insert_piece writes: a numpy index, so -1 is the last row.
drop_row(s, column) == count_empty(s, column) - 1

\* insert_piece without the test for a full column: a faulty variant.
insert_piece_unchecked(name, column, s) ==
  IF column = NO_MOVE THEN [exc |-> "none", state |-> s, input |-> s]
  ELSE [exc |-> "none",
        state |-> [s EXCEPT ![(count_empty(s, column) - 1) % ROWS][column] = name2val(name)],
        input |-> s]

\* insert_piece(player_name, column, state): exc, the state returned, and
\* input, the array passed in as it is after the call.
insert_piece(name, column, s) ==
  IF column = NO_MOVE THEN [exc |-> "none", state |-> s, input |-> s]
  ELSE IF count_empty(s, column) = 0
       THEN [exc |-> "FullColumnException", state |-> s, input |-> s]
  ELSE [exc |-> "none",
        state |-> [s EXCEPT ![drop_row(s, column) % ROWS][column] = name2val(name)],
        input |-> s]

\* The members of a set of columns, in ascending order.
ascending(S) ==
  [i \in 1 .. Cardinality(S) |->
     CHOOSE c \in S : Cardinality({d \in S : d < c}) = i - 1]

\* np.arange(7)[np.sum(state == EMPTY, axis=0) > 0]
open_columns(s) ==
  Only({ascending(open) : open \in {{c \in Cls : count_empty(s, c) > 0}}})

\* get_available_moves without the test for a decided state: a faulty
\* variant.
get_available_moves_open(s) == open_columns(s)

\* get_available_moves(state)
get_available_moves(s) ==
  IF check_winner(s) = None THEN open_columns(s) ELSE <<NO_MOVE>>

\* ---------------------------------------------------------------- estimator

\* The value models explored: value_model.predict is a black box that maps a
\* board to a scalar.  Each member maps a board to lo + (a weighted sum of
\* its cells, plus salt) mod span, in halves: the first ranges over
\* -1.5 .. 1.5, the second over -0.5 .. 0.5.
ValueModels ==
  { [lo |-> -3, span |-> 7, salt |-> 0],
    [lo |-> -1, span |-> 3, salt |-> 1] }

\* A weighted sum of the first n cells of a board.
RECURSIVE board_sum(_, _)
board_sum(s, n) ==
  IF n = 0 THEN 0
  ELSE n * s[(n - 1) \div COLS][(n - 1) % COLS] + board_sum(s, n - 1)

predict(vm, s) == vm.lo + ((board_sum(s, ROWS * COLS) + vm.salt) % vm.span)

\* calc_state_values(states): one value per state, in order.
calc_state_values(vm, states) == [i \in 1 .. Len(states) |-> predict(vm, states[i])]

\* calc_reward without the branch for a loss: a faulty variant.
calc_reward_no_loss(name, w) ==
  IF w = name THEN 2
  ELSE IF w = None THEN 0
  ELSE 1

\* calc_reward(winner), for the agent called name.
calc_reward(name, w) ==
  IF w = name THEN 2
  ELSE IF w = None THEN 0
  ELSE IF w = Draw THEN 1
  ELSE -2

\* ---------------------------------------------------------------- lookahead

Digits == <<"0", "1", "2", "3", "4", "5", "6", "7", "8", "9">>

\* f'{move}' for a column index or NO_MOVE.
Str(move) == IF move = NO_MOVE THEN <<"-", "9", "9", "9">> ELSE <<Digits[move + 1]>>

\* child_key without the moves before: a faulty variant.
child_key_last(prev_move, move) == IF move # NO_MOVE THEN Str(move) ELSE prev_move

\* f'{prev_move}{move if move != NO_MOVE else ""}'
child_key(prev_move, move) == prev_move \o (IF move # NO_MOVE THEN Str(move) ELSE <<>>)

\* One row [prev_move, key, insert_piece(name, move, state)] of
\* moves_and_temp_states; a row's exc is the exception insert_piece raised.
row(prev_move, key, name, move, s) ==
  Only({[prev |-> prev_move, key |-> key, state |-> r.state, exc |-> r.exc] :
          r \in {insert_piece(name, move, s)}})

\* The rows ['', f'{move}', insert_piece(self.name, move, state)] of the
\* first ply.
first_rows(name, moves, s) ==
  [i \in 1 .. Len(moves) |-> row(<<>>, Str(moves[i]), name, moves[i], s)]

\* The rows one row contributes to the next ply: one per available move.
children(parent, name) ==
  Only({[m \in 1 .. Len(av) |->
           row(parent.key, child_key(parent.key, av[m]), name, av[m], parent.state)] :
          av \in {get_available_moves(parent.state)}})

RECURSIVE expand_from(_, _, _)
expand_from(rows, name, i) ==
  IF i > Len(rows) THEN <<>>
  ELSE children(rows[i], name) \o expand_from(rows, name, i + 1)

\* One of the list comprehensions that expand a ply, rows in order.
expand(rows, name) == Only({expand_from(R, name, 1) : R \in {rows}})

\* moves_and_temp_states[:, 0]
column0(rows) == [i \in 1 .. Len(rows) |-> rows[i].prev]

\* The exceptions the rows' insert_piece calls raised.
raised_in(rows) == {rows[i].exc : i \in 1 .. Len(rows)} \ {"none"}

\* One pass of the loop "for i in range(self.iteration - 1)".
round_trip(acc, name, opp) ==
  Only({Only({[rows |-> rep,
               self_move_idx |-> Append(acc.self_move_idx, column0(own)),
               opp_move_idx |-> Append(acc.opp_move_idx, column0(rep)),
               raised |-> acc.raised \cup raised_in(own) \cup raised_in(rep)] :
                rep \in {expand(own, opp)}}) :
          own \in {expand(acc.rows, name)}})

RECURSIVE round_trips(_, _, _, _)
round_trips(acc, n, name, opp) ==
  IF n = 0 THEN acc
  ELSE Only({round_trips(A, n - 1, name, opp) : A \in {round_trip(acc, name, opp)}})

\* The expansion: the rows of the last ply and the index lists.
build_tree(name, s, moves, depth) ==
  Only({Only({round_trips([rows |-> rep,
                           self_move_idx |-> <<>>,
                           opp_move_idx |-> <<column0(rep)>>,
                           raised |-> raised_in(own) \cup raised_in(rep)],
                          depth - 1, name, get_opponent_name(name)) :
                rep \in {expand(own, get_opponent_name(name))}}) :
          own \in {first_rows(name, moves, s) \o <<>>}})

\* The characters that occur in a key, in the order of their code points.
Alphabet == <<"-", "0", "1", "2", "3", "4", "5", "6", "7", "8", "9">>

\* The keys of K, which agree on their first n characters, in ascending
\* order as Python compares strings: the key of length n first, then, for
\* each next character in turn, the keys that go on with it.
RECURSIVE sorted_from(_, _), sorted_by_char(_, _, _)
sorted_from(K, n) ==
  IF K = {} THEN <<>>
  ELSE Only({(IF \E k \in S : Len(k) = n THEN <<Only({k \in S : Len(k) = n})>> ELSE <<>>)
               \o sorted_by_char({k \in S : Len(k) > n}, n, 1) : S \in {K}})

sorted_by_char(K, n, a) ==
  IF K = {} \/ a > Len(Alphabet) THEN <<>>
  ELSE Only({sorted_from({k \in S : k[n + 1] = Alphabet[a]}, n + 1)
               \o sorted_by_char({k \in S : k[n + 1] # Alphabet[a]}, n, a + 1) : S \in {K}})

\* The members of a set of keys, in ascending order.
sorted_keys(K) == sorted_from(K, 0)

\* uf.reduce over the values of one group.
reduce(uf, V) ==
  IF uf = "minimum" THEN CHOOSE x \in V : \A y \in V : x <= y
  ELSE CHOOSE x \in V : \A y \in V : x >= y

\* groupby_np(X, groups, uf) of the module numpy_groupby, which is imported
\* and not part of src/viergewinnt.py: the values of each group reduced with
\* uf, one result per distinct key, the keys in ascending order.
groupby_np(X, groups, uf) ==
  IF Len(X) # Len(groups) THEN [exc |-> "ValueError", values |-> <<>>]
  ELSE Only({[exc |-> "none",
              values |-> [g \in 1 .. Len(keys) |->
                            reduce(uf, {X[i] : i \in {j \in 1 .. Len(groups) :
                                                       groups[j] = keys[g]}})] \o <<>>] :
               keys \in {sorted_keys({groups[i] : i \in 1 .. Len(groups)})}})

\* leaf_score with calc_reward called for every final state: a faulty
\* variant.
leaf_score_always(name, value, w) ==
  [value |-> calc_reward(name, w), called_with |-> {w}]

\* "value if winner is None else self.calc_reward(winner)" for one final
\* state: its value, and the winner calc_reward was called with, if any.
leaf_score(name, value, w) ==
  IF w = None THEN [value |-> value, called_with |-> {}]
  ELSE [value |-> calc_reward(name, w), called_with |-> {w}]

\* The scores of the final states: calc_state_values, check_winner and the
\* choice between the two, state by state.
leaf_scores(name, rows, vm) ==
  Only({[i \in 1 .. Len(rows) |->
           Only({leaf_score(name, state_values[i], w) :
                   w \in {check_winner(rows[i].state)}})] \o <<>> :
          state_values \in {calc_state_values(vm, [i \in 1 .. Len(rows) |-> rows[i].state])
                              \o <<>>}})

\* One pass of the loop "for i in range(self.iteration - 2, -1, -1)", i
\* counted from 1.
reduce_level(r, tree, i) ==
  Only({IF own.exc # "none" THEN own
        ELSE groupby_np(own.values, tree.opp_move_idx[i], "minimum") :
          own \in {groupby_np(r.values, tree.self_move_idx[i], "maximum")}})

RECURSIVE reduce_levels(_, _, _)
reduce_levels(r, tree, i) ==
  IF i = 0 \/ r.exc # "none" THEN r
  ELSE Only({reduce_levels(R, tree, i - 1) : R \in {reduce_level(r, tree, i)}})

\* The scoring and the reduction of an expanded tree.
score_and_reduce(name, tree, depth, vm) ==
  Only({Only({[exc |-> res.exc, values |-> res.values,
               reward_args |-> UNION {scores[i].called_with : i \in 1 .. Len(scores)}] :
                res \in {reduce_levels(
                           Only({R : R \in {groupby_np([i \in 1 .. Len(scores) |-> scores[i].value],
                                                       tree.opp_move_idx[depth], "minimum")}}),
                           tree, depth - 1)}}) :
          scores \in {leaf_scores(name, tree.rows, vm)}})

\* calc_move_values(state, moves) of the DeepAgent called name, with
\* self.iteration = depth and the value model vm: exc, the values returned,
\* and reward_args, the winners calc_reward was called with.
calc_move_values(name, s, moves, depth, vm) ==
  Only({IF tree.raised # {}
        THEN [exc |-> "FullColumnException", values |-> <<>>, reward_args |-> {}]
        ELSE score_and_reduce(name, tree, depth, vm) :
          tree \in {build_tree(name, s, moves, depth)}})

\* ------------------------------------------------------------------- agents

\* No calc_move_values call.
NoSearch == [called |-> FALSE]

\* DummyAgent.find_move(state): random.choice raises IndexError on an empty
\* sequence.  moves is the set of moves the call may return.
find_move_dummy(s) ==
  Only({IF Len(available_moves) = 0
        THEN [exc |-> "IndexError", moves |-> {}, search |-> NoSearch]
        ELSE [exc |-> "none",
              moves |-> {available_moves[i] : i \in 1 .. Len(available_moves)},
              search |-> NoSearch] :
          available_moves \in {get_available_moves(s)}})

\* The moves of available_moves[move_values == np.max(move_values)].
best_moves(available_moves, move_values) ==
  {available_moves[i] :
     i \in {j \in 1 .. Len(move_values) :
              \A k \in 1 .. Len(move_values) : move_values[k] <= move_values[j]}}

\* The branch "make optimal move" of DeepAgent.find_move.
optimal_move(name, s, available_moves, depth, vm) ==
  Only({Only({IF mv.exc # "none"
              THEN [exc |-> mv.exc, moves |-> {}, search |-> rec]
              ELSE IF Len(mv.values) # Len(available_moves)
              THEN [exc |-> "IndexError", moves |-> {}, search |-> rec]
              ELSE [exc |-> "none", moves |-> best_moves(available_moves, mv.values),
                    search |-> rec] :
                rec \in {[called |-> TRUE, name |-> name, state |-> s,
                          moves |-> available_moves, depth |-> depth, vm |-> vm,
                          exc |-> mv.exc, values |-> mv.values,
                          reward_args |-> mv.reward_args]}}) :
          mv \in {calc_move_values(name, s, available_moves, depth, vm)}})

\* DeepAgent.find_move(state, learn) of the agent called name; live is the
\* game's own state, which get_available_moves() reads, and explore tells
\* whether random.random() < exp_factor came out true.
find_move_deep(name, s, live, explore, depth, vm) ==
  Only({IF Len(available_moves) = 0
        THEN [exc |-> "FullBoardException", moves |-> {}, search |-> NoSearch]
        ELSE IF Len(available_moves) = 1
        THEN [exc |-> "none", moves |-> {available_moves[1]}, search |-> NoSearch]
        ELSE IF explore
        THEN [exc |-> "none",
              moves |-> {available_moves[i] : i \in 1 .. Len(available_moves)},
              search |-> NoSearch]
        ELSE optimal_move(name, s, available_moves, depth, vm) :
          available_moves \in {get_available_moves(live)}})

\* ----------------------------------------------------------------- openings

\* Three complete games, move by move (the column of each drop, player1
\* first): none is decided before its last move.
Scripts ==
  { <<1, 2, 3, 6, 1, 5, 0, 4, 6, 1, 1, 3, 1, 3, 1, 3, 3, 0, 2, 2, 6, 5, 2, 3,
      6, 4, 5, 5, 2, 2, 4, 6, 0, 4, 5, 4, 4, 0, 6, 0, 0, 5>>,
    <<4, 6, 2, 2, 5, 1, 2, 0, 5, 4, 5, 4, 4, 5, 5, 5, 0, 0, 0, 1, 0, 4, 6, 0,
      2, 2, 4, 6, 6, 6, 6, 3, 1, 1, 3, 3, 2, 3, 1, 3, 3, 1>>,
    <<1, 4, 3, 6, 3, 2, 2, 1, 1, 6, 5, 3, 2, 3, 6, 3, 3, 2, 6, 4, 1, 6, 1, 6,
      2, 5, 4, 5, 5, 2, 4, 4, 5, 0, 0, 0, 5, 0, 4, 0, 0, 1>> }

\* np.zeros((6, 7))
EmptyBoard == [r \in Rws |-> [c \in Cls |-> EMPTY]]

\* The player to move after n moves: player1 starts, then they alternate.
mover(n) == IF n % 2 = 0 THEN player1 ELSE player2

\* The game loop run on the first n moves of script: ok tells that every
\* move was an available move of an undecided position and that the
\* position reached is undecided.
RECURSIVE replay(_, _)
replay(script, n) ==
  IF n = 0 THEN [ok |-> TRUE, state |-> EmptyBoard]
  ELSE Only({Only({[ok |-> /\ before.ok
                           /\ \E i \in 1 .. Len(get_available_moves(before.state)) :
                                get_available_moves(before.state)[i] = script[n]
                           /\ r.exc = "none"
                           /\ check_winner(r.state) = None,
                    state |-> r.state] :
                     r \in {insert_piece(mover(n - 1), script[n], before.state)}}) :
               before \in {replay(script, n - 1)}})

\* The positions a game is taken up from: a script played until free cells
\* are left.
Openings(free) ==
  {[played |-> ROWS * COLS - free, state |-> rp.state] :
     rp \in {x \in {replay(sc, ROWS * COLS - free) : sc \in Scripts} : x.ok}}

AgentKinds == {"DummyAgent", "DeepAgent"}

\* learn_from_game exists on DeepAgent only: the learning loop needs two.
AgentConfigs ==
  {cfg \in [player1 : AgentKinds, player2 : AgentKinds, learn : BOOLEAN] :
     cfg.learn => (cfg.player1 = "DeepAgent" /\ cfg.player2 = "DeepAgent")}

NoProbe == [op |-> "none"]

NoMove == [asked |-> FALSE]

\* init_game, followed by the first `played` moves of a game.
InitGame(opening, cfg, depth, vm) ==
  /\ state = opening.state
  /\ winner = None
  /\ turn_player = mover(opening.played)
  /\ pc = "play_move"
  /\ exc = "none"
  /\ nmoves = opening.played
  /\ agents = [n \in Names |-> IF n = player1 THEN cfg.player1 ELSE cfg.player2]
  /\ learn = cfg.learn
  /\ iteration = depth
  /\ value_model = vm
  /\ last_move = NoMove
  /\ search = NoSearch
  /\ reward_args = {}
  /\ probe = NoProbe

\* DeepAgent.__init__: iteration=1.
DefaultIteration == 1

Dummies == [player1 |-> "DummyAgent", player2 |-> "DummyAgent", learn |-> FALSE]

WideModel == [lo |-> -3, span |-> 7, salt |-> 0]

\* The empty board, or an end game with FreeCells cells left; two
\* DummyAgents play.
Init ==
  \E opening \in {[played |-> 0, state |-> EmptyBoard]} \cup Openings(FreeCells) :
    InitGame(opening, Dummies, DefaultIteration, WideModel)

\* An end game with SearchFree cells left, every pairing of agents, every
\* depth up to MaxDepth and every value model.
GameInit ==
  \E opening \in Openings(SearchFree), cfg \in AgentConfigs,
     depth \in 1 .. MaxDepth, vm \in ValueModels :
    InitGame(opening, cfg, depth, vm)

\* An end game with SearchFree cells left, every pairing of agents, the
\* DeepAgents as constructed by default.
LoopInit ==
  \E opening \in Openings(SearchFree), cfg \in AgentConfigs :
    InitGame(opening, cfg, DefaultIteration, WideModel)

\* ---------------------------------------------------------------- game loop

\* The part of a game that is explored: its first MaxPly moves, and its
\* moves from an opening on.
Explored(n) ==
  \/ n < MaxPly
  \/ n >= ROWS * COLS - (IF FreeCells > SearchFree THEN FreeCells ELSE SearchFree)

\* next_player
next_player(name) == IF name = player1 THEN player2 ELSE player1

\* play_move with the result fm of turn_player.find_move(self.state, learn),
\* and the assignment self.state = self.play_move() of the loop.  (The
\* append to game_history is left out: nothing modelled reads it.)  An
\* exception leaves play_game; the live state is then what insert_piece left
\* of its input.
PlayMove(fm) ==
  /\ nmoves' = nmoves + 1
  /\ search' = fm.search
  /\ reward_args' = IF fm.search.called THEN fm.search.reward_args ELSE {}
  /\ IF fm.exc # "none"
     THEN /\ pc' = "raised"
          /\ exc' = fm.exc
          /\ last_move' = [asked |-> TRUE, decided |-> check_winner(state) # None,
                           move |-> NO_MOVE, inserted |-> FALSE]
          /\ UNCHANGED <<state, turn_player>>
     ELSE \E move \in fm.moves :
            \E r \in {insert_piece(turn_player, move, state)} :
               /\ last_move' = [asked |-> TRUE, decided |-> check_winner(state) # None,
                                move |-> move, inserted |-> r.exc = "none"]
               /\ IF r.exc # "none"
                  THEN /\ pc' = "raised"
                       /\ exc' = r.exc
                       /\ state' = r.input
                       /\ UNCHANGED turn_player
                  ELSE /\ pc' = "check_winner"
                       /\ exc' = "none"
                       /\ state' = r.state
                       /\ turn_player' = next_player(turn_player)
  /\ UNCHANGED <<winner, agents, learn, iteration, value_model, probe>>

\* One pass of "while self.winner is None" up to play_move, a DummyAgent to
\* move.
DummyMove ==
  /\ pc = "play_move"
  /\ probe = NoProbe
  /\ Explored(nmoves)
  /\ agents[turn_player] = "DummyAgent"
  /\ \E fm \in {find_move_dummy(state)} : PlayMove(fm)

\* The same with a DeepAgent to move; it may explore only when learning.
DeepMove ==
  /\ pc = "play_move"
  /\ probe = NoProbe
  /\ Explored(nmoves)
  /\ agents[turn_player] = "DeepAgent"
  /\ \E explore \in (IF learn THEN BOOLEAN ELSE {FALSE}) :
       \E fm \in {find_move_deep(turn_player, state, state, explore, iteration, value_model)} :
         PlayMove(fm)

\* self.winner = self.check_winner(), and the loop's test.
CheckWinnerStep ==
  /\ pc = "check_winner"
  /\ winner' = check_winner(state)
  /\ pc' = IF winner' # None THEN "ended" ELSE "play_move"
  /\ search' = NoSearch
  /\ reward_args' = {}
  /\ UNCHANGED <<state, turn_player, exc, nmoves, agents, learn, iteration,
                 value_model, last_move, probe>>

\* The end of play_game: return self.winner.
ReturnWinner ==
  /\ pc = "ended"
  /\ ~learn
  /\ pc' = "returned"
  /\ UNCHANGED <<state, winner, turn_player, exc, nmoves, agents, learn, iteration,
                 value_model, last_move, search, reward_args, probe>>

\* The end of a game of play_games_for_learning: both players'
\* learn_from_game call calc_reward(winner).
LearnFromGame ==
  /\ pc = "ended"
  /\ learn
  /\ pc' = "learned"
  /\ reward_args' = {winner}
  /\ UNCHANGED <<state, winner, turn_player, exc, nmoves, agents, learn, iteration,
                 value_model, last_move, search, probe>>

\* ------------------------------------------------------------- direct calls

\* A method is called on the live state between two passes of the loop or
\* after the game.
Callable == probe = NoProbe /\ pc \in {"play_move", "returned"}

CallCheckWinner ==
  /\ Callable
  /\ probe' = [op |-> "check_winner", result |-> check_winner(state)]
  /\ UNCHANGED <<state, winner, turn_player, pc, exc, nmoves, agents, learn,
                 iteration, value_model, last_move, search, reward_args>>

CallGetAvailableMoves ==
  /\ Callable
  /\ probe' = [op |-> "get_available_moves", result |-> get_available_moves(state)]
  /\ UNCHANGED <<state, winner, turn_player, pc, exc, nmoves, agents, learn,
                 iteration, value_model, last_move, search, reward_args>>

\* insert_piece(name, column) on the live state: the live state is the array
\* passed in.
CallInsertPiece ==
  /\ Callable
  /\ \E name \in Names, column \in Cls \cup {NO_MOVE} :
       \E r \in {insert_piece(name, column, state)} :
          /\ probe' = [op |-> "insert_piece", name |-> name, column |-> column,
                       before |-> state, exc |-> r.exc, result |-> r.state]
          /\ state' = r.input
  /\ UNCHANGED <<winner, turn_player, pc, exc, nmoves, agents, learn,
                 iteration, value_model, last_move, search, reward_args>>

\* A DeepAgent's find_move(self.state) for the player to move.
CallFindMove ==
  /\ Callable
  /\ \E fm \in {find_move_deep(turn_player, state, state, FALSE, iteration, value_model)} :
       probe' = [op |-> "find_move", exc |-> fm.exc, moves |-> fm.moves]
  /\ UNCHANGED <<state, winner, turn_player, pc, exc, nmoves, agents, learn,
                 iteration, value_model, last_move, search, reward_args>>

\* The call is over.
CallReturn ==
  /\ probe # NoProbe
  /\ probe' = NoProbe
  /\ UNCHANGED <<state, winner, turn_player, pc, exc, nmoves, agents, learn,
                 iteration, value_model, last_move, search, reward_args>>

\* ----------------------------------------------------------- specifications

Next ==
  \/ DummyMove
  \/ CheckWinnerStep
  \/ ReturnWinner
  \/ CallCheckWinner
  \/ CallGetAvailableMoves
  \/ CallInsertPiece
  \/ CallFindMove
  \/ CallReturn

\* Two DummyAgents play from the empty board and from the end-game openings;
\* the methods are called on the positions they reach.
Spec == Init /\ [][Next]_vars

GameNext ==
  \/ DummyMove
  \/ DeepMove
  \/ CheckWinnerStep
  \/ ReturnWinner
  \/ LearnFromGame

\* The game loop alone, for every pairing of agents, every depth and every
\* value model.
GameSpec == GameInit /\ [][GameNext]_vars

\* The game loop for every pairing of agents with the default depth.  The
\* loop is sequential code: it runs on until it returns or raises.
LoopSpec == LoopInit /\ [][GameNext]_vars /\ WF_vars(GameNext)

\* --------------------------------------------------------------- properties

\* The rules of the game, stated on the board alone.

Full(s) == \A r \in Rws, c \in Cls : s[r][c] # EMPTY

Pieces(s) == Cardinality({rc \in Rws \X Cls : s[rc[1]][rc[2]] # EMPTY})

PiecesOf(s, v) == Cardinality({rc \in Rws \X Cls : s[rc[1]][rc[2]] = v})

\* No empty cell lies below a filled cell.
Gravity(s) ==
  \A c \in Cls : \A r \in 0 .. (ROWS - 2) : s[r][c] # EMPTY => s[r + 1][c] # EMPTY

\* Down, right, down-right, down-left.
Directions == {<<1, 0>>, <<0, 1>>, <<1, 1>>, <<1, -1>>}

\* Four cells of value v in a line from (r, c) in direction d.
FourAt(s, v, r, c, d) ==
  \A k \in 0 .. 3 :
    /\ r + k * d[1] \in Rws
    /\ c + k * d[2] \in Cls
    /\ s[r + k * d[1]][c + k * d[2]] = v

HasFour(s, v) == \E r \in Rws, c \in Cls, d \in Directions : FourAt(s, v, r, c, d)

HasVerticalFour(s, v) == \E r \in Rws, c \in Cls : FourAt(s, v, r, c, <<1, 0>>)

\* A four of v that is not vertical, on a full board without a vertical four.
HiddenFour(s, v) ==
  /\ Full(s)
  /\ HasFour(s, v)
  /\ ~HasVerticalFour(s, 1)
  /\ ~HasVerticalFour(s, -1)

\* The columns a piece can be dropped into.
OpenCols(s) == {c \in Cls : s[0][c] = EMPTY}

\* The board after name dropped a piece into the open column c.
Drop(name, c, s) ==
  [s EXCEPT ![CHOOSE r \in Rws : s[r][c] = EMPTY /\ (r = ROWS - 1 \/ s[r + 1][c] # EMPTY)][c] =
              IF name = player1 THEN 1 ELSE -1]

\* The positions one ply leads to; a decided position is passed through.
Successors(s, who) ==
  IF check_winner(s) # None THEN {s} ELSE {Drop(who, c, s) : c \in OpenCols(s)}

SetMin(S) == CHOOSE x \in S : \A y \in S : x <= y

SetMax(S) == CHOOSE x \in S : \A y \in S : x >= y

\* The score of a leaf for name, in halves: the terminal reward of a decided
\* position, the estimate of an undecided one.
LeafValue(name, s, vm) ==
  Only({IF w = None THEN predict(vm, s)
        ELSE IF w = name THEN 2
        ELSE IF w = Draw THEN 1
        ELSE -2 : w \in {check_winner(s)}})

\* The minimax value for name of a position with the opponent to move
\* (MinValue) and with name to move (MaxValue), d round trips deep.
RECURSIVE MinValue(_, _, _, _), MaxValue(_, _, _, _)
MinValue(name, s, d, vm) ==
  SetMin({IF d = 1 THEN LeafValue(name, u, vm) ELSE MaxValue(name, u, d - 1, vm) :
            u \in Successors(s, get_opponent_name(name))})

MaxValue(name, s, d, vm) ==
  SetMax({MinValue(name, u, d, vm) : u \in Successors(s, name)})

\* C1: gravity.  In every board reached from the empty board by drops into
\* available columns, players alternating, no empty cell lies below a filled
\* cell.
C1_Gravity == Gravity(state)

\* A drop has landed on top of another piece, with room left above it.
C1_Witness ==
  /\ pc = "check_winner"
  /\ last_move.inserted
  /\ \E c \in Cls : state[ROWS - 2][c] # EMPTY /\ state[0][c] = EMPTY
  /\ Gravity(state)

C3_WinnerFound ==
  probe.op = "check_winner" =>
    /\ (HasFour(state, 1) /\ ~HasFour(state, -1)) => probe.result = player1
    /\ (HasFour(state, -1) /\ ~HasFour(state, 1)) => probe.result = player2
    /\ (~HasFour(state, 1) /\ ~HasFour(state, -1) /\ ~Full(state)) => probe.result = None

\* C4: get_available_moves returns [NO_MOVE] exactly when check_winner
\* reports the state decided, and otherwise the columns with an empty cell,
\* in ascending order.
C4_AvailableMoves ==
  probe.op = "get_available_moves" =>
    /\ (probe.result = <<NO_MOVE>>) <=> (check_winner(state) # None)
    /\ check_winner(state) = None =>
         /\ {probe.result[i] : i \in 1 .. Len(probe.result)} = OpenCols(state)
         /\ \A i \in 1 .. (Len(probe.result) - 1) : probe.result[i] < probe.result[i + 1]

\* get_available_moves answered on an undecided board with a full column.
C4_Witness ==
  /\ probe.op = "get_available_moves"
  /\ check_winner(state) = None
  /\ OpenCols(state) # Cls
  /\ Len(probe.result) = Cardinality(OpenCols(state))
  /\ Len(probe.result) >= 2

\* C5: insert_piece with a column that has no empty cell raises
\* FullColumnException, and the state passed in, which is the live state, is
\* after the call what it was before.
C5_FullColumn ==
  (/\ probe.op = "insert_piece"
   /\ probe.column # NO_MOVE
   /\ \A r \in Rws : probe.before[r][probe.column] # EMPTY) =>
    /\ probe.exc = "FullColumnException"
    /\ probe.result = probe.before
    /\ state = probe.before

\* insert_piece was called with a full column.
C5_Witness ==
  /\ probe.op = "insert_piece"
  /\ probe.column \in Cls
  /\ \A r \in Rws : probe.before[r][probe.column] # EMPTY
  /\ probe.exc = "FullColumnException"
  /\ state = probe.before

\* C6: DeepAgent.find_move, asked for a move in a decided position, raises
\* FullBoardException instead of returning a move.
C6_FullBoardRaised ==
  (probe.op = "find_move" /\ (Full(state) \/ check_winner(state) # None)) =>
    probe.exc = "FullBoardException"

\* The candidates of a search one round trip deep.

\* The position the search's i-th candidate move leads to.
After(i) == Drop(search.name, search.moves[i], search.state)

\* The positions the opponent's replies to the i-th candidate lead to.
Replies(i) ==
  IF check_winner(After(i)) # None THEN {}
  ELSE {Drop(get_opponent_name(search.name), c, After(i)) : c \in OpenCols(After(i))}

OppVal == name2val(get_opponent_name(search.name))

\* Some reply to the i-th candidate completes a four for the opponent.
Losing(i) == \E u \in Replies(i) : HasFour(u, OppVal)

\* The estimator returns more than -1 for every undecided leaf below the
\* i-th candidate.
EstimatesAboveLoss(i) ==
  \A u \in Replies(i) : check_winner(u) = None => predict(search.vm, u) > -2

\* C7, as claimed: one round trip deep, a candidate with a reply that
\* completes a four for the opponent gets exactly -1, and that is lower than
\* the value of every candidate without such a reply, whatever the estimator
\* returns.
C7_LosingMoveLowest ==
  (search.called /\ search.depth = 1 /\ search.exc = "none") =>
    \A i \in 1 .. Len(search.moves) :
      Losing(i) =>
        /\ search.values[i] = -2
        /\ \A j \in 1 .. Len(search.moves) :
             ~Losing(j) => search.values[i] < search.values[j]

\* C7, amended: when the estimator returns more than -1 for the undecided
\* leaves below a candidate, the candidate gets exactly -1 if a reply
\* completes a four for the opponent, unless each such reply fills the last
\* cell with a four that is not vertical, which scores as a draw, 0.5; and
\* it gets more than -1 if no reply completes a four.
C7_LosingMoveLowestAmended ==
  (search.called /\ search.depth = 1 /\ search.exc = "none") =>
    \A i \in 1 .. Len(search.moves) :
      EstimatesAboveLoss(i) =>
        /\ (\E u \in Replies(i) : HasFour(u, OppVal) /\ ~HiddenFour(u, OppVal)) =>
             search.values[i] = -2
        /\ (Losing(i) /\ \A u \in Replies(i) : HasFour(u, OppVal) => HiddenFour(u, OppVal)) =>
             search.values[i] = 1
        /\ ~Losing(i) => search.values[i] > -2

\* A search one round trip deep with a candidate that loses to a reply and
\* a candidate that does not, the first valued -1 and the second higher.
C7_Witness ==
  /\ search.called
  /\ search.depth = 1
  /\ search.exc = "none"
  /\ \E i, j \in 1 .. Len(search.moves) :
       /\ \E u \in Replies(i) : HasFour(u, OppVal) /\ ~HiddenFour(u, OppVal)
       /\ \E u \in Replies(i) : check_winner(u) = None
       /\ EstimatesAboveLoss(i)
       /\ ~Losing(j)
       /\ Replies(j) # {}
       /\ EstimatesAboveLoss(j)
       /\ search.values[i] = -2
       /\ search.values[i] < search.values[j]

\* C8: on a full board without a vertical four check_winner returns False,
\* the draw, whether or not the board holds a horizontal or diagonal four.
C8_DrawEarlyExit ==
  (/\ probe.op = "check_winner"
   /\ Full(state)
   /\ ~HasVerticalFour(state, 1)
   /\ ~HasVerticalFour(state, -1)) =>
    probe.result = Draw

\* check_winner returned the draw for a full board that holds a four.
C8_Witness ==
  /\ probe.op = "check_winner"
  /\ HiddenFour(state, 1) \/ HiddenFour(state, -1)
  /\ probe.result = Draw

\* C9: calc_reward is never called with the winner None, neither for a leaf
\* of the lookahead nor at the end of a game, so that the reward 0 is never
\* produced.
C9_NoRewardForNone ==
  /\ None \notin reward_args
  /\ search.called => None \notin search.reward_args
  /\ \A w \in reward_args : \A n \in Names : calc_reward(n, w) # 0

\* A lookahead deeper than the moves left, in which calc_reward was called.
C9_Witness ==
  /\ search.called
  /\ search.exc = "none"
  /\ ROWS * COLS - Pieces(search.state) < 2 * search.depth
  /\ search.reward_args # {}
  /\ reward_args = search.reward_args

\* What C10 says of every state of a game.
GameSafe ==
  /\ nmoves <= ROWS * COLS
  /\ exc = "none"
  /\ pc # "raised"
  /\ Pieces(state) = nmoves
  /\ PiecesOf(state, 1) = (nmoves + 1) \div 2
  /\ PiecesOf(state, -1) = nmoves \div 2
  /\ turn_player = mover(nmoves)
  /\ pc \in {"ended", "returned", "learned"} => winner \in {player1, player2, Draw}
  /\ last_move.asked =>
       /\ ~last_move.decided
       /\ last_move.move # NO_MOVE
       /\ last_move.inserted

\* C10: every game between agents ends, after at most 42 moves, one piece
\* a move and the players taking turns, with the winner player1, player2 or
\* False; no agent is asked for a move in a decided position, NO_MOVE is
\* never applied to the live board and no exception is raised.
C10_GameEnds == []GameSafe /\ <>(pc \in {"returned", "learned"})

\* A game that filled the board has returned a draw.
C10_Witness ==
  /\ pc = "returned"
  /\ nmoves = ROWS * COLS
  /\ winner = Draw
  /\ last_move.asked
  /\ last_move.inserted

====
